---- MODULE Spec2Model ----
(***************************************************************************)
(* Order lifecycle, ownership authorization and menu management of the     *)
(* food-ordering backend, its restaurant statistics and driver endpoints,  *)
(* and the driver store of the frontend.                                   *)
(*                                                                         *)
(* The store (Prisma) is the only shared state.  Every controller is a     *)
(* request handler: it reads req.user, looks the resource up, answers an   *)
(* error or writes.  Spec runs the handlers one request at a time;         *)
(* SpecConc interleaves the order handlers at the await between their      *)
(* findUnique and their update.                                            *)
(***************************************************************************)
EXTENDS Bags, Integers, FiniteSets, Sequences, TLC

VARIABLES
    order,      \* Order rows: id -> [exists, status, customerId, restaurantId,
                \*   actualDeliveryTime, createdAt, items, subtotal, deliveryFee, tax,
                \*   discount, total], items the OrderItem rows of the order; money in cents
    restaurant, \* Restaurant rows: id -> [exists, isOpen, minOrderAmount, deliveryFee]
    delivery,   \* Delivery rows by order: orderId -> [exists, driverId, status, rows],
                \*   rows the number of Delivery rows that carry the orderId
    menuItem,   \* MenuItem rows: id -> [exists, restaurantId, isAvailable, price]
    inflight,   \* bag of the requests suspended between their read and their write
    last,       \* the response to the request handled by the latest step
    accepted,   \* history: number of acceptOrder requests answered with success, per order
    rejected,   \* history: a rejectOrder request was answered with success, per order
    deliveries, \* Delivery rows as the driver handlers address them: id ->
                \*   [driverId, status, pickupTime, deliveryTime, driverFee]
    drivers,    \* User rows of the users of the driver endpoints: id ->
                \*   [driverStatus, totalDeliveries, totalEarnings]
    credited,   \* history: completions answered with success, per user: [n, sum of driverFee]
    stats,      \* the data of the latest getRestaurantStats response:
                \*   [restaurantId, code, monthly, yearly, popularItems]
    created,    \* Restaurant rows written by createRestaurant: set of [ownerId, name]
    store       \* the driver store of the frontend (useDriverStore):
                \*   [status, currentDelivery, availableDeliveries, isLoading]

driverVars == <<deliveries, drivers, credited>>

vars == <<order, restaurant, delivery, menuItem, inflight, last, accepted, rejected,
          deliveries, drivers, credited, stats, created, store>>

----------------------------------------------------------------------------
(* Bounds *)
MaxSoldItems == 6
MaxCartLines == 2

MaxInFlight == 2      \* concurrent requests between read and write
MaxMenuItems == 2     \* MenuItem ids available to the store
MaxCompletions == 2   \* deliveries credited to the users, over a run
MaxFee == 3           \* largest Delivery.driverFee of the fixtures

----------------------------------------------------------------------------
(* Enumerations and fixtures *)

OrderStatuses ==
    {"pending", "confirmed", "preparing", "ready_for_pickup",
     "out_for_delivery", "delivered", "cancelled"}

\* body.status of an updateOrderStatus request: the enum values and one string outside it
RequestedStatuses == OrderStatuses \cup {"bogus"}

TerminalStatuses == {"delivered", "cancelled"}

\* req.user is undefined
NoUser == [id |-> "none", role |-> "none"]

\* Identities the authentication middleware attaches to a request (Request.user:
\* id and role, role a plain string).  The last one is the fixture of the menu
\* tests: the restaurant's owner id with the role string 'OWNER'.
Actors ==
    { [id |-> "c1", role |-> "customer"],
      [id |-> "c2", role |-> "customer"],
      [id |-> "o1", role |-> "restaurant_owner"],
      [id |-> "o2", role |-> "restaurant_owner"],
      [id |-> "d1", role |-> "driver"],
      [id |-> "d2", role |-> "driver"],
      [id |-> "a1", role |-> "admin"],
      [id |-> "o1", role |-> "OWNER"] }

Requesters == Actors \cup {NoUser}

\* A customer and the owner of restaurant r1
Shopper == [id |-> "c2", role |-> "customer"]
Keeper == [id |-> "o1", role |-> "restaurant_owner"]

DriverIds == {"d1", "d2"}

RestaurantIds == {"r1", "r2"}
RestaurantRefs == RestaurantIds \cup {"nonexistent"}

\* Restaurant.ownerId
ownerId == [r \in RestaurantIds |-> IF r = "r1" THEN "o1" ELSE "o2"]

OrderIds == {"ord1"}
OrderRefs == OrderIds \cup {"nonexistent"}

\* The id that order.create gives to the order a customer places
PlacedOrderIds == {"ord2"}
AllOrderIds == OrderIds \cup PlacedOrderIds

\* createdAt, as the statistics windows see it
Periods == {"thisMonth", "thisYear", "older"}

MenuItemIds == 1..MaxMenuItems
MenuItemRefs == MenuItemIds \cup {0}

\* Prices of the fixtures, in cents: the burger of the order tests
BurgerPrice == 1299

NoMenuItem == [exists |-> FALSE, restaurantId |-> "none", isAvailable |-> FALSE, price |-> 0]
NoRestaurant == [exists |-> FALSE, isOpen |-> FALSE, minOrderAmount |-> 0, deliveryFee |-> 0]
NoOrder ==
    [exists |-> FALSE, status |-> "none", customerId |-> "none", restaurantId |-> "none",
     actualDeliveryTime |-> FALSE, createdAt |-> "none", items |-> << >>,
     subtotal |-> 0, deliveryFee |-> 0, tax |-> 0, discount |-> 0, total |-> 0]
NoDelivery == [exists |-> FALSE, driverId |-> "none", status |-> "none", rows |-> 0]
\* cart: the items of the body of a createOrder request, << >> for the other requests
NoResponse ==
    [op |-> "none", actor |-> NoUser, id |-> "none", to |-> "none",
     code |-> "none", read |-> "none", stored |-> "none", cart |-> << >>]

Response(op, actor, id, to, code, read, stored) ==
    [op |-> op, actor |-> actor, id |-> id, to |-> to,
     code |-> code, read |-> read, stored |-> stored, cart |-> << >>]

----------------------------------------------------------------------------
(* Order lifecycle engine *)

\* The allowed edge set of Order.status
validTransitions ==
    [s \in OrderStatuses |->
        CASE s = "pending"          -> {"confirmed", "cancelled"}
          [] s = "confirmed"        -> {"preparing", "cancelled"}
          [] s = "preparing"        -> {"ready_for_pickup", "cancelled"}
          [] s = "ready_for_pickup" -> {"out_for_delivery", "cancelled"}
          [] s = "out_for_delivery" -> {"delivered", "cancelled"}
          [] OTHER                  -> {}]

\* Mutant: only the two statuses named in the refusal message are excluded
CancellableStatuses_AllButInFlight == OrderStatuses \ {"out_for_delivery", "delivered"}

\* Statuses in which cancelOrder is permitted
CancellableStatuses == {"pending", "confirmed"}

\* Transitions a driver may request
DriverTransitions ==
    {<<"ready_for_pickup", "out_for_delivery">>, <<"out_for_delivery", "delivered">>}

\* Mutant: the write carries the status alone
transitionData_StatusOnly(row, to) == [row EXCEPT !.status = to]

\* order.update data of a status change: delivered also stamps actualDeliveryTime
transitionData(row, to) ==
    IF to = "delivered"
    THEN [row EXCEPT !.status = to, !.actualDeliveryTime = TRUE]
    ELSE [row EXCEPT !.status = to]

----------------------------------------------------------------------------
(* Authorization *)

isAdmin(actor) == actor.role = "admin"

\* Owner of the restaurant, for the order operations
ownsRestaurant(actor, r) ==
    actor.role = "restaurant_owner" /\ ownerId[r] = actor.id

\* Mutant: every driver of a delivery is authorized, assigned to this order or not
isAssignedDriver_AnyDriver(actor, id, to) ==
    /\ actor.role = "driver"
    /\ <<order[id].status, to>> \in DriverTransitions

\* The driver of the order's delivery asking for a transition drivers may request
isAssignedDriver(actor, id, to) ==
    /\ actor.role = "driver"
    /\ delivery[id].exists
    /\ delivery[id].driverId = actor.id
    /\ <<order[id].status, to>> \in DriverTransitions

\* Mutant: the role is checked in place of the ownership
menuAuthorized_RoleOnly(actor, r) ==
    actor.role \in {"admin", "restaurant_owner"}

\* menuItemController: userRole !== 'admin' && restaurant.ownerId !== userId -> 403
menuAuthorized(actor, r) ==
    actor.role = "admin" \/ ownerId[r] = actor.id

----------------------------------------------------------------------------
(* Order handlers: the checks made before the write *)

OrderFound(id) == id \in AllOrderIds /\ order[id].exists

\* Mutant: the status check is missing
acceptOrderCheck_AnyStatus(actor, id) ==
    IF actor = NoUser THEN "NotAuthenticated"
    ELSE IF ~OrderFound(id) THEN "NotFound"
    ELSE IF ~(isAdmin(actor) \/ ownsRestaurant(actor, order[id].restaurantId)) THEN "Forbidden"
    ELSE "OK"

\* orderManagementController.acceptOrder
acceptOrderCheck(actor, id) ==
    IF actor = NoUser THEN "NotAuthenticated"
    ELSE IF ~OrderFound(id) THEN "NotFound"
    ELSE IF ~(isAdmin(actor) \/ ownsRestaurant(actor, order[id].restaurantId)) THEN "Forbidden"
    ELSE IF order[id].status # "pending" THEN "OnlyPendingCanBeAccepted"
    ELSE "OK"

\* orderManagementController.rejectOrder
rejectOrderCheck(actor, id) ==
    IF actor = NoUser THEN "NotAuthenticated"
    ELSE IF ~OrderFound(id) THEN "NotFound"
    ELSE IF ~(isAdmin(actor) \/ ownsRestaurant(actor, order[id].restaurantId)) THEN "Forbidden"
    ELSE IF order[id].status # "pending" THEN "OnlyPendingCanBeRejected"
    ELSE "OK"

\* orderManagementController.updateOrderStatus
manageOrderStatusCheck(actor, id, to) ==
    IF actor = NoUser THEN "NotAuthenticated"
    ELSE IF ~OrderFound(id) THEN "NotFound"
    ELSE IF ~(isAdmin(actor) \/ ownsRestaurant(actor, order[id].restaurantId)) THEN "Forbidden"
    ELSE IF to \notin validTransitions[order[id].status] THEN "InvalidTransition"
    ELSE "OK"

\* orderController.updateOrderStatus
updateOrderStatusCheck(actor, id, to) ==
    IF actor = NoUser THEN "NotAuthenticated"
    ELSE IF ~OrderFound(id) THEN "NotFound"
    ELSE IF ~(\/ isAdmin(actor)
              \/ ownsRestaurant(actor, order[id].restaurantId)
              \/ isAssignedDriver(actor, id, to)) THEN "Forbidden"
    ELSE IF to \notin validTransitions[order[id].status] THEN "InvalidTransition"
    ELSE "OK"

\* orderController.cancelOrder
cancelOrderCheck(actor, id) ==
    IF actor = NoUser THEN "NotAuthenticated"
    ELSE IF ~OrderFound(id) THEN "NotFound"
    ELSE IF ~(isAdmin(actor) \/ order[id].customerId = actor.id) THEN "Forbidden"
    ELSE IF order[id].status \notin CancellableStatuses THEN "CannotCancel"
    ELSE "OK"

Check(req) ==
    CASE req.op = "acceptOrder"       -> acceptOrderCheck(req.actor, req.id)
      [] req.op = "rejectOrder"       -> rejectOrderCheck(req.actor, req.id)
      [] req.op = "manageOrderStatus" -> manageOrderStatusCheck(req.actor, req.id, req.to)
      [] req.op = "updateOrderStatus" -> updateOrderStatusCheck(req.actor, req.id, req.to)
      [] req.op = "cancelOrder"       -> cancelOrderCheck(req.actor, req.id)

Request(op, actor, id, to) == [op |-> op, actor |-> actor, id |-> id, to |-> to]

\* The status the handler has read when it answers: none before the lookup succeeds
StatusRead(req, code) ==
    IF code \in {"NotAuthenticated", "NotFound"} THEN "none" ELSE order[req.id].status

\* The status the handler has compared with the stored one when it answers
StatusAsked(req, code) ==
    IF code \in {"OK", "InvalidTransition"} THEN req.to ELSE "none"

\* prisma.order.update({ where: { id }, data }) of a request that passed its checks
Written(req) == [order EXCEPT ![req.id] = transitionData(@, req.to)]

Accepted(req, code) ==
    IF code = "OK" /\ req.op = "acceptOrder"
    THEN [accepted EXCEPT ![req.id] = @ + 1] ELSE accepted

Rejected(req, code) ==
    IF code = "OK" /\ req.op = "rejectOrder"
    THEN [rejected EXCEPT ![req.id] = TRUE] ELSE rejected

\* What a handler run from its first line to its response, with no other
\* request in between, leaves behind
Handled(req) ==
    LET code == Check(req)
        read == StatusRead(req, code)
    IN  [order    |-> IF code = "OK" THEN Written(req) ELSE order,
         last     |-> Response(req.op, req.actor, req.id, StatusAsked(req, code),
                               code, read, read),
         accepted |-> Accepted(req, code),
         rejected |-> Rejected(req, code)]

acceptOrder(actor, id) ==
    /\ order' = Handled(Request("acceptOrder", actor, id, "confirmed")).order
    /\ last' = Handled(Request("acceptOrder", actor, id, "confirmed")).last
    /\ accepted' = Handled(Request("acceptOrder", actor, id, "confirmed")).accepted
    /\ UNCHANGED <<restaurant, delivery, menuItem, inflight, rejected>>
    /\ UNCHANGED <<driverVars, stats, created, store>>

rejectOrder(actor, id) ==
    /\ order' = Handled(Request("rejectOrder", actor, id, "cancelled")).order
    /\ last' = Handled(Request("rejectOrder", actor, id, "cancelled")).last
    /\ rejected' = Handled(Request("rejectOrder", actor, id, "cancelled")).rejected
    /\ UNCHANGED <<restaurant, delivery, menuItem, inflight, accepted>>
    /\ UNCHANGED <<driverVars, stats, created, store>>

manageOrderStatus(actor, id, to) ==
    /\ order' = Handled(Request("manageOrderStatus", actor, id, to)).order
    /\ last' = Handled(Request("manageOrderStatus", actor, id, to)).last
    /\ UNCHANGED <<restaurant, delivery, menuItem, inflight, accepted, rejected>>
    /\ UNCHANGED <<driverVars, stats, created, store>>

updateOrderStatus(actor, id, to) ==
    /\ order' = Handled(Request("updateOrderStatus", actor, id, to)).order
    /\ last' = Handled(Request("updateOrderStatus", actor, id, to)).last
    /\ UNCHANGED <<restaurant, delivery, menuItem, inflight, accepted, rejected>>
    /\ UNCHANGED <<driverVars, stats, created, store>>

cancelOrder(actor, id) ==
    /\ order' = Handled(Request("cancelOrder", actor, id, "cancelled")).order
    /\ last' = Handled(Request("cancelOrder", actor, id, "cancelled")).last
    /\ UNCHANGED <<restaurant, delivery, menuItem, inflight, accepted, rejected>>
    /\ UNCHANGED <<driverVars, stats, created, store>>

\* Mutant: Delivery.orderId carries no unique constraint
deliveryCreateAccepted_NoUnique(id) == TRUE

\* Delivery.orderId is unique: the store refuses a second row for the order
deliveryCreateAccepted(id) == delivery[id].rows = 0

\* prisma.delivery.create: one more row for the order, status 'assigned' by default
deliveryCreated(row, driverId) ==
    [exists |-> TRUE,
     driverId |-> IF row.exists THEN row.driverId ELSE driverId,
     status |-> IF row.exists THEN row.status ELSE "assigned",
     rows |-> row.rows + 1]

\* orderController.assignDriver: req.user is not consulted; order.update writes
\* status 'confirmed', delivery.create adds the Delivery row (orderId is unique)
assignDriver(requester, id, driverId) ==
    IF ~OrderFound(id)
    THEN /\ last' = Response("assignDriver", requester, id, "none",
                             "InternalError", "none", "none")
         /\ UNCHANGED <<restaurant, order, delivery, menuItem, inflight, accepted, rejected>>
         /\ UNCHANGED <<driverVars, stats, created, store>>
    ELSE /\ order' = [order EXCEPT ![id].status = "confirmed"]
         /\ delivery' = IF deliveryCreateAccepted(id)
                        THEN [delivery EXCEPT ![id] = deliveryCreated(@, driverId)]
                        ELSE delivery
         /\ last' = Response("assignDriver", requester, id, "confirmed",
                             IF deliveryCreateAccepted(id) THEN "OK" ELSE "InternalError",
                             "none", order[id].status)
         /\ UNCHANGED <<restaurant, menuItem, inflight, accepted, rejected>>
         /\ UNCHANGED <<driverVars, stats, created, store>>

----------------------------------------------------------------------------
(* Menu item handlers (menuItemController) *)

MenuItemFound(m) == m \in MenuItemIds /\ menuItem[m].exists

RestaurantFound(r) == r \in RestaurantIds /\ restaurant[r].exists

MenuResponse(op, actor, r, code) == Response(op, actor, r, "none", code, "none", "none")

createMenuItemCheck(actor, r) ==
    IF actor = NoUser THEN "NotAuthenticated"
    ELSE IF ~RestaurantFound(r) THEN "NotFound"
    ELSE IF ~menuAuthorized(actor, r) THEN "Forbidden"
    ELSE "OK"

menuItemCheck(actor, m) ==
    IF actor = NoUser THEN "NotAuthenticated"
    ELSE IF ~MenuItemFound(m) THEN "NotFound"
    ELSE IF ~menuAuthorized(actor, menuItem[m].restaurantId) THEN "Forbidden"
    ELSE "OK"

RestaurantOfItem(m) == IF MenuItemFound(m) THEN menuItem[m].restaurantId ELSE "nonexistent"

FreeMenuItemIds == {m \in MenuItemIds : ~menuItem[m].exists}

createMenuItem(actor, r) ==
    LET code == createMenuItemCheck(actor, r) IN
    /\ code = "OK" => FreeMenuItemIds # {}
    /\ menuItem' =
         IF code = "OK"
         THEN LET m == CHOOSE x \in FreeMenuItemIds : \A y \in FreeMenuItemIds : x <= y
              IN  [menuItem EXCEPT ![m] =
                     [exists |-> TRUE, restaurantId |-> r, isAvailable |-> TRUE,
                      price |-> BurgerPrice]]
         ELSE menuItem
    /\ last' = MenuResponse("createMenuItem", actor, r, code)
    /\ UNCHANGED <<restaurant, order, delivery, inflight, accepted, rejected>>
    /\ UNCHANGED <<driverVars, stats, created, store>>

\* isAvailable and price are written only when the body carries them;
\* price is << >> when the body has none, <<p>> when it has p
updateMenuItem(actor, m, available, price) ==
    LET code == menuItemCheck(actor, m) IN
    /\ menuItem' =
         IF code = "OK"
         THEN [menuItem EXCEPT
                 ![m].isAvailable = IF available = "unset" THEN @ ELSE (available = "true"),
                 ![m].price = IF price = << >> THEN @ ELSE price[1]]
         ELSE menuItem
    /\ last' = MenuResponse("updateMenuItem", actor, RestaurantOfItem(m), code)
    /\ UNCHANGED <<restaurant, order, delivery, inflight, accepted, rejected>>
    /\ UNCHANGED <<driverVars, stats, created, store>>

deleteMenuItem(actor, m) ==
    LET code == menuItemCheck(actor, m) IN
    /\ menuItem' = IF code = "OK" THEN [menuItem EXCEPT ![m] = NoMenuItem] ELSE menuItem
    /\ last' = MenuResponse("deleteMenuItem", actor, RestaurantOfItem(m), code)
    /\ UNCHANGED <<restaurant, order, delivery, inflight, accepted, rejected>>
    /\ UNCHANGED <<driverVars, stats, created, store>>

----------------------------------------------------------------------------
(* Reading an order (orderController.getOrder) *)

\* The driver of the order's delivery
deliversOrder(actor, id) == delivery[id].exists /\ delivery[id].driverId = actor.id

\* Mutant: every authenticated user may read every order
mayView_Everyone(actor, id) == TRUE

\* The order's customer, the owner of its restaurant, its driver, or an admin
mayView(actor, id) ==
    \/ order[id].customerId = actor.id
    \/ ownsRestaurant(actor, order[id].restaurantId)
    \/ deliversOrder(actor, id)
    \/ isAdmin(actor)

getOrderCheck(actor, id) ==
    IF actor = NoUser THEN "NotAuthenticated"
    ELSE IF ~OrderFound(id) THEN "NotFound"
    ELSE IF ~mayView(actor, id) THEN "Forbidden"
    ELSE "OK"

\* The response carries the order on success only; read stands for its data
getOrder(actor, id) ==
    /\ last' = Response("getOrder", actor, id, "none", getOrderCheck(actor, id),
                        IF getOrderCheck(actor, id) = "OK" THEN order[id].status ELSE "none",
                        "none")
    /\ UNCHANGED <<order, restaurant, delivery, menuItem, inflight, accepted, rejected>>
    /\ UNCHANGED <<driverVars, stats, created, store>>

----------------------------------------------------------------------------
(* Placing an order (orderController.createOrder) and the restaurant        *)
(* handlers (restaurantController)                                          *)

\* body.items: lines of menuItemId and quantity, without customizations
Quantities == {1, 2}

CartLines == [menuItemId : MenuItemIds, quantity : Quantities]

RECURSIVE CartsOfLen(_)
CartsOfLen(n) ==
    IF n = 0 THEN {<< >>}
    ELSE {Append(c, l) : c \in CartsOfLen(n - 1), l \in CartLines}

Carts == UNION {CartsOfLen(n) : n \in 1..MaxCartLines}

\* The OrderItem row of a cart line: name and price copied from the menu item
orderItemOf(line) ==
    [menuItemId |-> line.menuItemId,
     price |-> menuItem[line.menuItemId].price,
     quantity |-> line.quantity,
     subtotal |-> menuItem[line.menuItemId].price * line.quantity]

orderItemsOf(cart) == [k \in 1..Len(cart) |-> orderItemOf(cart[k])]

RECURSIVE sumSubtotals(_)
sumSubtotals(items) ==
    IF items = << >> THEN 0
    ELSE items[1].subtotal + sumSubtotals(Tail(items))

\* Tax: 8% of the subtotal, to the cent
taxOf(subtotal) == (subtotal * 8 + 50) \div 100

\* Mutant: the total leaves the tax out
orderTotal_NoTax(subtotal, deliveryFee, tax, discount) == subtotal + deliveryFee - discount

orderTotal(subtotal, deliveryFee, tax, discount) == subtotal + deliveryFee + tax - discount

itemMissing(line) == ~MenuItemFound(line.menuItemId)

\* Mutant: availability of the menu item is not looked at
itemRefused_ExistsOnly(line) == ~MenuItemFound(line.menuItemId)

itemRefused(line) ==
    \/ ~MenuItemFound(line.menuItemId)
    \/ ~menuItem[line.menuItemId].isAvailable

RefusedLines(cart) == {k \in 1..Len(cart) : itemRefused(cart[k])}

firstRefused(cart) == CHOOSE k \in RefusedLines(cart) : \A j \in RefusedLines(cart) : k <= j

\* The items are looked up one by one, in the order of the cart: the first one
\* that is missing or unavailable ends the request
createOrderCheck(actor, r, cart) ==
    IF actor = NoUser THEN "NotAuthenticated"
    ELSE IF ~RestaurantFound(r) THEN "RestaurantNotFound"
    ELSE IF ~restaurant[r].isOpen THEN "RestaurantClosed"
    ELSE IF RefusedLines(cart) # {}
         THEN IF itemMissing(cart[firstRefused(cart)])
              THEN "MenuItemNotFound" ELSE "MenuItemNotAvailable"
    ELSE IF sumSubtotals(orderItemsOf(cart)) < restaurant[r].minOrderAmount
         THEN "MinimumOrderAmount"
    ELSE "OK"

\* order.create data
createOrderData(actor, r, cart) ==
    [exists |-> TRUE, status |-> "pending", customerId |-> actor.id, restaurantId |-> r,
     actualDeliveryTime |-> FALSE, createdAt |-> "thisMonth",
     items |-> orderItemsOf(cart),
     subtotal |-> sumSubtotals(orderItemsOf(cart)),
     deliveryFee |-> restaurant[r].deliveryFee,
     tax |-> taxOf(sumSubtotals(orderItemsOf(cart))),
     discount |-> 0,
     total |-> orderTotal(sumSubtotals(orderItemsOf(cart)), restaurant[r].deliveryFee,
                          taxOf(sumSubtotals(orderItemsOf(cart))), 0)]

FreeOrderIds == {i \in PlacedOrderIds : ~order[i].exists}

NewOrderId == CHOOSE i \in FreeOrderIds : TRUE

\* Requests are sent while the store has room for one more order
createOrder(actor, r, cart) ==
    /\ FreeOrderIds # {}
    /\ order' = IF createOrderCheck(actor, r, cart) = "OK"
                THEN [order EXCEPT ![NewOrderId] = createOrderData(actor, r, cart)]
                ELSE order
    /\ last' = [op |-> "createOrder", actor |-> actor, id |-> r,
                to |-> IF createOrderCheck(actor, r, cart) = "OK" THEN NewOrderId ELSE "none",
                code |-> createOrderCheck(actor, r, cart),
                read |-> "none", stored |-> "none", cart |-> cart]
    /\ UNCHANGED <<restaurant, delivery, menuItem, inflight, accepted, rejected>>
    /\ UNCHANGED <<driverVars, stats, created, store>>

restaurantCheck(actor, r) ==
    IF actor = NoUser THEN "NotAuthenticated"
    ELSE IF ~RestaurantFound(r) THEN "NotFound"
    ELSE IF ~(isAdmin(actor) \/ ownerId[r] = actor.id) THEN "Forbidden"
    ELSE "OK"

\* updateRestaurant with body { isOpen }: deliveryFee is written with its default
updateRestaurant(actor, r, isOpen) ==
    /\ restaurant' =
         IF restaurantCheck(actor, r) = "OK"
         THEN [restaurant EXCEPT ![r].isOpen = isOpen, ![r].deliveryFee = 299]
         ELSE restaurant
    /\ last' = MenuResponse("updateRestaurant", actor, r, restaurantCheck(actor, r))
    /\ UNCHANGED <<order, delivery, menuItem, inflight, accepted, rejected>>
    /\ UNCHANGED <<driverVars, stats, created, store>>

\* Restaurant deletion cascades to the orders of the restaurant
ordersAfterDelete(r) ==
    [i \in AllOrderIds |-> IF order[i].restaurantId = r THEN NoOrder ELSE order[i]]

\* restaurant.delete({ where: { id } }), with the cascades of the schema:
\* restaurant -> items and orders, order -> order items and delivery
deleteRestaurant(actor, r) ==
    /\ restaurant' =
         IF restaurantCheck(actor, r) = "OK"
         THEN [restaurant EXCEPT ![r] = NoRestaurant] ELSE restaurant
    /\ menuItem' =
         IF restaurantCheck(actor, r) = "OK"
         THEN [m \in MenuItemIds |->
                 IF menuItem[m].restaurantId = r THEN NoMenuItem ELSE menuItem[m]]
         ELSE menuItem
    /\ order' = IF restaurantCheck(actor, r) = "OK" THEN ordersAfterDelete(r) ELSE order
    /\ delivery' =
         IF restaurantCheck(actor, r) = "OK"
         THEN [i \in AllOrderIds |->
                 IF order[i].restaurantId = r THEN NoDelivery ELSE delivery[i]]
         ELSE delivery
    /\ last' = MenuResponse("deleteRestaurant", actor, r, restaurantCheck(actor, r))
    /\ UNCHANGED <<inflight, accepted, rejected>>
    /\ UNCHANGED <<driverVars, stats, created, store>>

----------------------------------------------------------------------------
(* Creating a restaurant (restaurantController.createRestaurant).  The      *)
(* handler awaits restaurant.findFirst and then restaurant.create; other    *)
(* requests run in between.                                                 *)

\* Users that ask for a restaurant: the owner of r1, an owner without a
\* restaurant, a customer, and a request without req.user
Founders ==
    {Keeper, [id |-> "o3", role |-> "restaurant_owner"], Shopper, NoUser}

\* restaurant.findFirst({ where: { ownerId } }) finds a row
hasRestaurant(userId) ==
    \/ \E r \in RestaurantIds : restaurant[r].exists /\ ownerId[r] = userId
    \/ \E row \in created : row.ownerId = userId

createRestaurantCheck(actor) ==
    IF actor = NoUser THEN "NotAuthenticated"
    ELSE IF actor.role \notin {"restaurant_owner", "admin"} THEN "Forbidden"
    ELSE IF hasRestaurant(actor.id) THEN "AlreadyHasRestaurant"
    ELSE "OK"

\* The checks and findFirst; a request that fails them is answered at once
BeginCreateRestaurant(actor, name) ==
    /\ BagCardinality(inflight) < MaxInFlight
    /\ inflight' =
         IF createRestaurantCheck(actor) = "OK"
         THEN inflight (+) SetToBag({[op |-> "createRestaurant", actor |-> actor,
                                      name |-> name]})
         ELSE inflight
    /\ last' =
         IF createRestaurantCheck(actor) = "OK" THEN last
         ELSE MenuResponse("createRestaurant", actor, name, createRestaurantCheck(actor))
    /\ UNCHANGED <<order, restaurant, delivery, menuItem, accepted, rejected>>
    /\ UNCHANGED <<driverVars, stats, created, store>>

\* restaurant.create({ data: { name, ..., ownerId } }) and the response; the
\* store refuses a second row of the same owner and name
FinishCreateRestaurant(r) ==
    /\ BagIn(r, inflight)
    /\ r.op = "createRestaurant"
    /\ created' = created \cup {[ownerId |-> r.actor.id, name |-> r.name]}
    /\ last' = MenuResponse("createRestaurant", r.actor, r.name,
                            IF [ownerId |-> r.actor.id, name |-> r.name] \in created
                            THEN "InternalError" ELSE "OK")
    /\ inflight' = inflight (-) SetToBag({r})
    /\ UNCHANGED <<order, restaurant, delivery, menuItem, accepted, rejected>>
    /\ UNCHANGED <<driverVars, stats, store>>

----------------------------------------------------------------------------
(* Statistics of a restaurant (restaurantStatsController.getRestaurantStats) *)

\* take: 5 of the popular items query
PopularItemsTake == 5

\* Menu item ids that order items may carry; the items may since be deleted
SoldItemIds == 1..MaxSoldItems

NoStats ==
    [restaurantId |-> "none", code |-> "none", monthly |-> 0, yearly |-> 0,
     popularItems |-> << >>]

\* createdAt >= startOfMonth, createdAt >= startOfYear: the periods that pass
sinceStartOfMonth == {"thisMonth"}
sinceStartOfYear == {"thisMonth", "thisYear"}

\* Mutant: the revenue counts the orders of every status
revenueRows_AnyStatus(r, window) ==
    {i \in AllOrderIds :
        order[i].exists /\ order[i].restaurantId = r /\ order[i].createdAt \in window}

\* where: { restaurantId, status: 'delivered', createdAt: { gte } }
revenueRows(r, window) ==
    {i \in AllOrderIds :
        /\ order[i].exists
        /\ order[i].restaurantId = r
        /\ order[i].status = "delivered"
        /\ order[i].createdAt \in window}

RECURSIVE sumTotals(_)
sumTotals(ids) ==
    IF ids = {} THEN 0
    ELSE LET i == CHOOSE x \in ids : TRUE IN order[i].total + sumTotals(ids \ {i})

\* order.aggregate({ _sum: { total: true } }): << >> stands for the null that
\* the store answers when no row matches
aggregateTotal(ids) == IF ids = {} THEN << >> ELSE <<sumTotals(ids)>>

\* _sum.total || 0
orZero(sum) == IF sum = << >> THEN 0 ELSE sum[1]

\* where: { order: { restaurantId, status: 'delivered' } }
soldOrders(r) ==
    {i \in AllOrderIds :
        order[i].exists /\ order[i].restaurantId = r /\ order[i].status = "delivered"}

\* The order items of the delivered orders of the restaurant: <<order, line>>
soldLines(r) == UNION {{<<i, k>> : k \in 1..Len(order[i].items)} : i \in soldOrders(r)}

RECURSIVE sumLines(_, _)
sumLines(lines, field) ==
    IF lines = {} THEN 0
    ELSE LET l == CHOOSE x \in lines : TRUE
         IN  order[l[1]].items[l[2]][field] + sumLines(lines \ {l}, field)

\* orderItem.groupBy({ by: ['menuItemId'], _sum: { quantity, subtotal } })
soldGroup(r, m) ==
    LET lines == {l \in soldLines(r) : order[l[1]].items[l[2]].menuItemId = m}
    IN  [id |-> m, totalSold |-> sumLines(lines, "quantity"),
         totalRevenue |-> sumLines(lines, "subtotal")]

soldItems(r) ==
    {m \in SoldItemIds :
        \E l \in soldLines(r) : order[l[1]].items[l[2]].menuItemId = m}

soldGroups(r) == [m \in soldItems(r) |-> soldGroup(r, m)]

\* orderBy: { _sum: { quantity: 'desc' } }: the orders in which the store may
\* answer the groups; groups of equal quantity come in any order
RECURSIVE rankings(_, _)
rankings(groups, ids) ==
    IF ids = {} THEN {<< >>}
    ELSE UNION {
           {<<groups[m]>> \o t : t \in rankings(groups, ids \ {m})} :
             m \in {x \in ids : \A y \in ids : groups[x].totalSold >= groups[y].totalSold}}

\* take: 5
firstOf(seq, n) == IF Len(seq) <= n THEN seq ELSE SubSeq(seq, 1, n)

\* Mutant: the entry of an item that is not found carries no figures
popularItem_NoFigures(group) ==
    IF MenuItemFound(group.id)
    THEN [id |-> group.id, name |-> "Burger", price |-> menuItem[group.id].price,
          totalSold |-> group.totalSold, totalRevenue |-> group.totalRevenue]
    ELSE [id |-> group.id, name |-> "Unknown", price |-> 0,
          totalSold |-> 0, totalRevenue |-> 0]

\* An entry of popularItems: the group with the name and the price of its
\* MenuItem row (menuItem.findMany), 'Unknown' and 0 when the row is not found;
\* the menu items of the fixtures are all named Burger
popularItem(group) ==
    IF MenuItemFound(group.id)
    THEN [id |-> group.id, name |-> "Burger", price |-> menuItem[group.id].price,
          totalSold |-> group.totalSold, totalRevenue |-> group.totalRevenue]
    ELSE [id |-> group.id, name |-> "Unknown", price |-> 0,
          totalSold |-> group.totalSold, totalRevenue |-> group.totalRevenue]

getRestaurantStatsCheck(actor, r) ==
    IF actor = NoUser THEN "NotAuthenticated"
    ELSE IF ~RestaurantFound(r) THEN "NotFound"
    ELSE IF ~(isAdmin(actor) \/ ownsRestaurant(actor, r)) THEN "Forbidden"
    ELSE "OK"

getRestaurantStats(actor, r) ==
    /\ \E ranking \in IF getRestaurantStatsCheck(actor, r) = "OK"
                       THEN rankings(soldGroups(r), soldItems(r)) ELSE {<< >>} :
          stats' =
            IF getRestaurantStatsCheck(actor, r) = "OK"
            THEN [restaurantId |-> r, code |-> "OK",
                  monthly |-> orZero(aggregateTotal(revenueRows(r, sinceStartOfMonth))),
                  yearly |-> orZero(aggregateTotal(revenueRows(r, sinceStartOfYear))),
                  popularItems |->
                    [k \in 1..Len(firstOf(ranking, PopularItemsTake)) |->
                        popularItem(firstOf(ranking, PopularItemsTake)[k])]]
            ELSE [NoStats EXCEPT !.restaurantId = r,
                                 !.code = getRestaurantStatsCheck(actor, r)]
    /\ last' = MenuResponse("getRestaurantStats", actor, r, getRestaurantStatsCheck(actor, r))
    /\ UNCHANGED <<order, restaurant, delivery, menuItem, inflight, accepted, rejected>>
    /\ UNCHANGED <<driverVars, created, store>>

----------------------------------------------------------------------------
(* Concurrent requests: a handler is suspended at the await between its     *)
(* findUnique and its update, and other requests run in between.  A request *)
(* that fails its checks answers without suspending and writes nothing; the *)
(* sequential specification covers it.                                      *)

\* The parties that race on one order: its restaurant's owner and its customer
ConcRequests ==
    {Request("acceptOrder", [id |-> "o1", role |-> "restaurant_owner"], i, "confirmed")
        : i \in OrderIds}
    \cup {Request("rejectOrder", [id |-> "o1", role |-> "restaurant_owner"], i, "cancelled")
        : i \in OrderIds}
    \cup {Request("cancelOrder", [id |-> "c1", role |-> "customer"], i, "cancelled")
        : i \in OrderIds}
    \cup UNION {{Request("updateOrderStatus", [id |-> "o1", role |-> "restaurant_owner"], i, t)
                   : i \in OrderIds} : t \in OrderStatuses}

Suspended(req, read) ==
    [op |-> req.op, actor |-> req.actor, id |-> req.id, to |-> req.to, read |-> read]

\* Every request a handler can be suspended with
SuspendedRequests == {Suspended(req, read) : req \in ConcRequests, read \in OrderStatuses}

\* findUnique and the checks, all passed: the handler awaits its update
Begin(req) ==
    /\ BagCardinality(inflight) < MaxInFlight
    /\ Check(req) = "OK"
    /\ inflight' = inflight (+) SetToBag({Suspended(req, order[req.id].status)})
    /\ UNCHANGED <<restaurant, order, delivery, menuItem, last, accepted, rejected>>
    /\ UNCHANGED <<driverVars, stats, created, store>>

\* order.update({ where: { id }, data }) and the success response
Commit(r) ==
    /\ BagIn(r, inflight)
    /\ order' = Written(Request(r.op, r.actor, r.id, r.to))
    /\ last' = Response(r.op, r.actor, r.id, r.to, "OK", r.read, order[r.id].status)
    /\ accepted' = Accepted(Request(r.op, r.actor, r.id, r.to), "OK")
    /\ rejected' = Rejected(Request(r.op, r.actor, r.id, r.to), "OK")
    /\ inflight' = inflight (-) SetToBag({r})
    /\ UNCHANGED <<restaurant, delivery, menuItem>>
    /\ UNCHANGED <<driverVars, stats, created, store>>

----------------------------------------------------------------------------
(* Concurrent assignDriver: the handler is suspended at the await between  *)
(* its order.update and its delivery.create.                                *)

\* The dispatcher that sends the assignments
Dispatcher == [id |-> "a1", role |-> "admin"]

SuspendedAssign(id, driverId) ==
    [op |-> "assignDriver", actor |-> Dispatcher, id |-> id, to |-> "confirmed",
     read |-> "none", driverId |-> driverId]

SuspendedAssigns == {SuspendedAssign(i, d) : i \in OrderIds, d \in DriverIds}

\* order.update({ where: { id }, data: { status: 'confirmed' } })
BeginAssign(id, driverId) ==
    /\ BagCardinality(inflight) < MaxInFlight
    /\ OrderFound(id)
    /\ order' = [order EXCEPT ![id].status = "confirmed"]
    /\ inflight' = inflight (+) SetToBag({SuspendedAssign(id, driverId)})
    /\ UNCHANGED <<restaurant, delivery, menuItem, last, accepted, rejected>>
    /\ UNCHANGED <<driverVars, stats, created, store>>

\* delivery.create and the response
FinishAssign(r) ==
    /\ BagIn(r, inflight)
    /\ delivery' = IF deliveryCreateAccepted(r.id)
                   THEN [delivery EXCEPT ![r.id] = deliveryCreated(@, r.driverId)]
                   ELSE delivery
    /\ last' = Response(r.op, r.actor, r.id, r.to,
                        IF deliveryCreateAccepted(r.id) THEN "OK" ELSE "InternalError",
                        "none", order[r.id].status)
    /\ inflight' = inflight (-) SetToBag({r})
    /\ UNCHANGED <<restaurant, order, menuItem, accepted, rejected>>
    /\ UNCHANGED <<driverVars, stats, created, store>>

----------------------------------------------------------------------------
(* Driver handlers (driverController).  The driver routes run authenticate  *)
(* and nothing else, so every authenticated user reaches the handlers.      *)

DeliveryStatuses == {"assigned", "picked_up", "in_transit", "delivered", "cancelled"}

\* body.status of an updateDeliveryStatus request: the enum values and one string outside it
RequestedDeliveryStatuses == DeliveryStatuses \cup {"bogus"}

DriverStatuses == {"offline", "online", "busy"}

DeliveryIds == {"del1", "del2"}
DeliveryRefs == DeliveryIds \cup {"nonexistent"}

\* The delivery the requests handled one at a time are about
SeqDeliveryRefs == {"del1", "nonexistent"}

\* Users that call the driver endpoints: a driver and a customer
DriverUsers ==
    { [id |-> "d1", role |-> "driver"],
      [id |-> "c1", role |-> "customer"] }

DriverRequesters == DriverUsers \cup {NoUser}

UserIds == {u.id : u \in DriverUsers}

\* Delivery.driverFee is nullable: << >> is null, <<n>> is the amount n
feeOrZero(row) == IF row.driverFee = << >> THEN 0 ELSE row.driverFee[1]

RECURSIVE SumDeliveries(_)
SumDeliveries(ids) ==
    IF ids = {} THEN 0
    ELSE LET u == CHOOSE x \in ids : TRUE
         IN  drivers[u].totalDeliveries + SumDeliveries(ids \ {u})

\* Completions credited so far, over all users
Completions == SumDeliveries(UserIds)

\* acceptDelivery: 401 without req.user.id; delivery.update throws on an unknown id
acceptDeliveryCheck(actor, id) ==
    IF actor = NoUser THEN "NotAuthenticated"
    ELSE IF id \notin DeliveryIds THEN "InternalError"
    ELSE "OK"

\* Mutant: the status is written without the pickup stamp
acceptData_NoPickupTime(row) == [row EXCEPT !.status = "picked_up"]

\* acceptDelivery: data of delivery.update
acceptData(row) == [row EXCEPT !.status = "picked_up", !.pickupTime = TRUE]

\* updateDeliveryStatus: 401 without req.user.id; delivery.update throws on an
\* unknown id and on a status outside the enum
updateDeliveryStatusCheck(actor, id, status) ==
    IF actor = NoUser THEN "NotAuthenticated"
    ELSE IF id \notin DeliveryIds \/ status \notin DeliveryStatuses THEN "InternalError"
    ELSE "OK"

\* Mutant: delivered stamps pickupTime, as in_transit does, and no deliveryTime
updateData_NoDeliveryTime(row, status) ==
    IF status \in {"in_transit", "delivered"}
    THEN [row EXCEPT !.status = status, !.pickupTime = TRUE]
    ELSE [row EXCEPT !.status = status]

\* updateDeliveryStatus: updateData
updateData(row, status) ==
    IF status = "in_transit" THEN [row EXCEPT !.status = status, !.pickupTime = TRUE]
    ELSE IF status = "delivered" THEN [row EXCEPT !.status = status, !.deliveryTime = TRUE]
    ELSE [row EXCEPT !.status = status]

\* Mutant: the counters are computed in the handler from the row as it was
\* when the handler started
creditDriver_ReadModifyWrite(row, fee, seen) ==
    [row EXCEPT !.driverStatus = "online",
                !.totalDeliveries = seen.totalDeliveries + 1,
                !.totalEarnings = seen.totalEarnings + fee]

\* updateDeliveryStatus: user.update with { increment } on both counters; seen
\* is the user row as it was when the handler started, which the code never reads
creditDriver(row, fee, seen) ==
    [row EXCEPT !.driverStatus = "online",
                !.totalDeliveries = @ + 1,
                !.totalEarnings = @ + fee]

\* The second write of a handler, user.update, went through
Credits(code, status, userWriteFails) ==
    code = "OK" /\ status = "delivered" /\ ~userWriteFails

Credited(actor, fee) ==
    [credited EXCEPT ![actor.id] = [n |-> @.n + 1, sum |-> @.sum + fee]]

StoredDeliveryStatus(id) == IF id \in DeliveryIds THEN deliveries[id].status ELSE "none"

\* userWriteFails: the store fails the handler's second write, user.update
acceptDelivery(actor, id, userWriteFails) ==
    /\ deliveries' =
         IF acceptDeliveryCheck(actor, id) = "OK"
         THEN [deliveries EXCEPT ![id] = acceptData(@)] ELSE deliveries
    /\ drivers' =
         IF acceptDeliveryCheck(actor, id) = "OK" /\ ~userWriteFails
         THEN [drivers EXCEPT ![actor.id].driverStatus = "busy"] ELSE drivers
    /\ last' = Response("acceptDelivery", actor, id, "picked_up",
                        IF acceptDeliveryCheck(actor, id) = "OK" /\ userWriteFails
                        THEN "InternalError" ELSE acceptDeliveryCheck(actor, id),
                        "none", StoredDeliveryStatus(id))
    /\ UNCHANGED <<stats, created, store, restaurant, order, delivery, menuItem, inflight, accepted, rejected, credited>>

updateDeliveryStatus(actor, id, status, userWriteFails) ==
    /\ status = "delivered" => Completions < MaxCompletions
    /\ deliveries' =
         IF updateDeliveryStatusCheck(actor, id, status) = "OK"
         THEN [deliveries EXCEPT ![id] = updateData(@, status)] ELSE deliveries
    /\ drivers' =
         IF Credits(updateDeliveryStatusCheck(actor, id, status), status, userWriteFails)
         THEN [drivers EXCEPT ![actor.id] = creditDriver(@, feeOrZero(deliveries[id]), @)]
         ELSE drivers
    /\ credited' =
         IF Credits(updateDeliveryStatusCheck(actor, id, status), status, userWriteFails)
         THEN Credited(actor, feeOrZero(deliveries[id])) ELSE credited
    /\ last' = Response("updateDeliveryStatus", actor, id, status,
                        IF /\ updateDeliveryStatusCheck(actor, id, status) = "OK"
                           /\ status = "delivered" /\ userWriteFails
                        THEN "InternalError"
                        ELSE updateDeliveryStatusCheck(actor, id, status),
                        "none", StoredDeliveryStatus(id))
    /\ UNCHANGED <<stats, created, store, restaurant, order, delivery, menuItem, inflight, accepted, rejected>>

\* updateDriverStatus: user.update of driverStatus with body.status
updateDriverStatus(actor, status) ==
    /\ drivers' =
         IF actor # NoUser
         THEN [drivers EXCEPT ![actor.id].driverStatus = status] ELSE drivers
    /\ last' = Response("updateDriverStatus", actor, "none", status,
                        IF actor = NoUser THEN "NotAuthenticated" ELSE "OK",
                        "none", "none")
    /\ UNCHANGED <<stats, created, store, restaurant, order, delivery, menuItem, inflight, accepted, rejected,
                   deliveries, credited>>

----------------------------------------------------------------------------
(* Concurrent completions: updateDeliveryStatus(delivered) is suspended at  *)
(* the await between its delivery.update and its user.update.               *)

SuspendedCompletion(actor, id, fee, seen) ==
    [op |-> "updateDeliveryStatus", actor |-> actor, id |-> id, to |-> "delivered",
     fee |-> fee, seen |-> seen]

DriverRows ==
    [driverStatus : DriverStatuses,
     totalDeliveries : 0..MaxCompletions,
     totalEarnings : 0..(MaxCompletions * MaxFee)]

SuspendedCompletions ==
    {SuspendedCompletion(a, d, f, row) :
        a \in DriverUsers, d \in DeliveryIds, f \in 0..MaxFee, row \in DriverRows}

\* delivery.update({ where: { id }, data: { status, deliveryTime } })
BeginCompletion(actor, id) ==
    /\ BagCardinality(inflight) < MaxInFlight
    /\ Completions + BagCardinality(inflight) < MaxCompletions
    /\ deliveries' = [deliveries EXCEPT ![id] = updateData(@, "delivered")]
    /\ inflight' = inflight (+) SetToBag({SuspendedCompletion(
                        actor, id, feeOrZero(deliveries[id]), drivers[actor.id])})
    /\ UNCHANGED <<stats, created, store, restaurant, order, delivery, menuItem, last, accepted, rejected, drivers, credited>>

\* user.update({ where: { id: driverId }, data: { increment ... } }) and the response
FinishCompletion(r) ==
    /\ BagIn(r, inflight)
    /\ drivers' = [drivers EXCEPT ![r.actor.id] = creditDriver(@, r.fee, r.seen)]
    /\ credited' = Credited(r.actor, r.fee)
    /\ last' = Response(r.op, r.actor, r.id, r.to, "OK", "none", deliveries[r.id].status)
    /\ inflight' = inflight (-) SetToBag({r})
    /\ UNCHANGED <<stats, created, store, restaurant, order, delivery, menuItem, accepted, rejected, deliveries>>

----------------------------------------------------------------------------
(* The driver store of the frontend (useDriverStore).  A store action sets  *)
(* isLoading, awaits the driver service and sets the state again when the   *)
(* call settles; actions started meanwhile overlap with it.  A delivery is  *)
(* held by its id; deliveryHistory, earnings and location are left out.     *)

\* The store actions with their arguments; pc is the load that
\* initializeDriver awaits: 1 loadAvailableDeliveries, 2 loadDeliveryHistory,
\* 3 loadEarnings
StoreCalls ==
    [op : {"setStatus"}, id : {"none"}, to : DriverStatuses, pc : {0}]
      \cup [op : {"acceptDelivery"}, id : DeliveryIds, to : {"none"}, pc : {0}]
      \cup [op : {"updateDeliveryStatus"}, id : DeliveryIds,
            to : {"in_transit", "delivered"}, pc : {0}]
      \cup [op : {"loadAvailableDeliveries", "loadDeliveryHistory", "loadEarnings"},
            id : {"none"}, to : {"none"}, pc : {0}]
      \cup [op : {"initializeDriver"}, id : {"none"}, to : {"none"}, pc : 1..3]

\* The state an action sets when its service call settles.  ok: the call
\* resolved; data: response.data, "null" when the response carries none,
\* the delivery's id for acceptDelivery and updateDeliveryStatus, the ids of
\* the listed deliveries for loadAvailableDeliveries
storeAfter(st, c, ok, data) ==
    IF c.op = "loadEarnings" THEN st
    ELSE IF ~ok THEN [st EXCEPT !.isLoading = FALSE]
    ELSE IF c.op = "setStatus" THEN [st EXCEPT !.status = c.to, !.isLoading = FALSE]
    ELSE IF c.op = "acceptDelivery"
    THEN [st EXCEPT
            !.currentDelivery =
                IF data # "null" THEN data
                ELSE IF c.id \in st.availableDeliveries THEN c.id ELSE "null",
            !.availableDeliveries = @ \ {c.id},
            !.status = "busy",
            !.isLoading = FALSE]
    ELSE IF c.op = "updateDeliveryStatus"
    THEN [st EXCEPT
            !.currentDelivery =
                IF st.currentDelivery = c.id
                THEN (IF c.to = "delivered" THEN "null"
                      ELSE IF data # "null" THEN data ELSE st.currentDelivery)
                ELSE st.currentDelivery,
            !.status = IF st.currentDelivery = c.id /\ c.to = "delivered"
                       THEN "online" ELSE st.status,
            !.isLoading = FALSE]
    ELSE IF c.op = "loadAvailableDeliveries"
    THEN [st EXCEPT !.availableDeliveries = data, !.isLoading = FALSE]
    ELSE [st EXCEPT !.isLoading = FALSE]

\* set({ isLoading: true }) and the call of the driver service; loadEarnings
\* sets nothing, initializeDriver goes on into loadAvailableDeliveries
StoreBegin(c) ==
    /\ BagCardinality(inflight) < MaxInFlight
    /\ c.pc <= 1
    /\ store' = IF c.op = "loadEarnings" THEN store ELSE [store EXCEPT !.isLoading = TRUE]
    /\ inflight' = inflight (+) SetToBag({c})
    /\ UNCHANGED <<order, restaurant, delivery, menuItem, last, accepted, rejected>>
    /\ UNCHANGED <<driverVars, stats, created>>

\* The awaited call settles and the action runs to its end.  In
\* initializeDriver the load that settled sets its state, then the next load
\* starts (loadDeliveryHistory sets isLoading, loadEarnings does not); after
\* the last load, and in the catch, initializeDriver sets isLoading false
StoreSettle(c, ok, data) ==
    /\ BagIn(c, inflight)
    /\ store' =
         IF c.op # "initializeDriver" THEN storeAfter(store, c, ok, data)
         ELSE IF ~ok \/ c.pc = 3 THEN [store EXCEPT !.isLoading = FALSE]
         ELSE IF c.pc = 1
         THEN [store EXCEPT !.availableDeliveries = data, !.isLoading = TRUE]
         ELSE [store EXCEPT !.isLoading = FALSE]
    /\ inflight' =
         IF c.op = "initializeDriver" /\ ok /\ c.pc < 3
         THEN (inflight (-) SetToBag({c})) (+) SetToBag({[c EXCEPT !.pc = @ + 1]})
         ELSE inflight (-) SetToBag({c})
    /\ UNCHANGED <<order, restaurant, delivery, menuItem, last, accepted, rejected>>
    /\ UNCHANGED <<driverVars, stats, created>>

----------------------------------------------------------------------------
(* Specifications *)

\* The order of the fixtures: two burgers, placed this month
FirstOrder ==
    [exists |-> TRUE, status |-> "pending", customerId |-> "c1", restaurantId |-> "r1",
     actualDeliveryTime |-> FALSE, createdAt |-> "thisMonth",
     items |-> << [menuItemId |-> 1, price |-> BurgerPrice, quantity |-> 2,
                   subtotal |-> 2 * BurgerPrice] >>,
     subtotal |-> 2 * BurgerPrice, deliveryFee |-> 299, tax |-> 208, discount |-> 0,
     total |-> 3105]

\* The state of the store but for the Order rows
InitStore ==
    /\ restaurant = [r \in RestaurantIds |->
                       [exists |-> TRUE, isOpen |-> TRUE, minOrderAmount |-> 2000,
                        deliveryFee |-> 299]]
    /\ delivery = [i \in AllOrderIds |-> NoDelivery]
    /\ menuItem = [m \in MenuItemIds |->
                     IF m = 1
                     THEN [exists |-> TRUE, restaurantId |-> "r1", isAvailable |-> TRUE,
                           price |-> BurgerPrice]
                     ELSE NoMenuItem]
    /\ inflight = EmptyBag
    /\ last = NoResponse
    /\ accepted = [i \in AllOrderIds |-> 0]
    /\ rejected = [i \in AllOrderIds |-> FALSE]
    /\ deliveries = [d \in DeliveryIds |->
                       [driverId |-> IF d = "del1" THEN "d1" ELSE "d2",
                        status |-> "assigned", pickupTime |-> FALSE, deliveryTime |-> FALSE,
                        driverFee |-> IF d = "del1" THEN <<MaxFee>> ELSE << >>]]
    /\ drivers = [u \in UserIds |->
                    [driverStatus |-> "offline", totalDeliveries |-> 0, totalEarnings |-> 0]]
    /\ credited = [u \in UserIds |-> [n |-> 0, sum |-> 0]]
    /\ stats = NoStats
    /\ created = {}
    /\ store = [status |-> "offline", currentDelivery |-> "null",
               availableDeliveries |-> {}, isLoading |-> FALSE]

Init ==
    /\ order = [i \in AllOrderIds |-> IF i \in OrderIds THEN FirstOrder ELSE NoOrder]
    /\ InitStore

\* The order handlers, one request at a time, from every requester
Next ==
    \/ \E a \in Requesters, i \in OrderRefs : acceptOrder(a, i)
    \/ \E a \in Requesters, i \in OrderRefs : rejectOrder(a, i)
    \/ \E a \in Requesters, i \in OrderRefs, t \in RequestedStatuses : manageOrderStatus(a, i, t)
    \/ \E a \in Requesters, i \in OrderRefs, t \in RequestedStatuses : updateOrderStatus(a, i, t)
    \/ \E a \in Requesters, i \in OrderRefs : cancelOrder(a, i)
    \/ \E a \in Requesters, i \in OrderRefs, d \in DriverIds : assignDriver(a, i, d)

Spec == Init /\ [][Next]_vars

\* The menu item handlers, one request at a time, from every requester
NextMenu ==
    \/ \E a \in Requesters, r \in RestaurantRefs : createMenuItem(a, r)
    \/ \E a \in Requesters, m \in MenuItemRefs, v \in {"unset", "true", "false"} :
          updateMenuItem(a, m, v, << >>)
    \/ \E a \in Requesters, m \in MenuItemRefs : deleteMenuItem(a, m)

SpecMenu == Init /\ [][NextMenu]_vars

\* The owner dashboard: menu and order management requests of the restaurant owners
OwnerActors == {a \in Actors : a.role = "restaurant_owner"}

NextOwner ==
    \/ \E a \in OwnerActors, i \in OrderRefs : acceptOrder(a, i)
    \/ \E a \in OwnerActors, i \in OrderRefs : rejectOrder(a, i)
    \/ \E a \in OwnerActors, i \in OrderRefs, t \in RequestedStatuses : manageOrderStatus(a, i, t)
    \/ \E a \in OwnerActors, i \in OrderRefs, t \in RequestedStatuses : updateOrderStatus(a, i, t)
    \/ \E a \in OwnerActors, r \in RestaurantRefs : createMenuItem(a, r)
    \/ \E a \in OwnerActors, m \in MenuItemRefs, v \in {"unset", "true", "false"} :
          updateMenuItem(a, m, v, << >>)
    \/ \E a \in OwnerActors, m \in MenuItemRefs : deleteMenuItem(a, m)

SpecOwner == Init /\ [][NextOwner]_vars

\* An order item of menu item m: odd ids cost a burger, even ids 10.00
soldLine(m, q) ==
    [menuItemId |-> m,
     price |-> IF m % 2 = 1 THEN BurgerPrice ELSE 1000,
     quantity |-> q,
     subtotal |-> (IF m % 2 = 1 THEN BurgerPrice ELSE 1000) * q]

\* An Order row as createOrder writes it, at a later point of its life
storedOrder(customer, r, status, createdAt, items) ==
    [exists |-> TRUE, status |-> status, customerId |-> customer, restaurantId |-> r,
     actualDeliveryTime |-> (status = "delivered"), createdAt |-> createdAt,
     items |-> items,
     subtotal |-> sumSubtotals(items),
     deliveryFee |-> 299,
     tax |-> taxOf(sumSubtotals(items)),
     discount |-> 0,
     total |-> orderTotal(sumSubtotals(items), 299, taxOf(sumSubtotals(items)), 0)]

\* Revenue: two orders of any restaurant, age and of three statuses; the
\* owner and others ask for the statistics while orders get delivered
InitRevenue ==
    /\ \E r1 \in RestaurantIds, r2 \in RestaurantIds,
          s1 \in {"out_for_delivery", "delivered", "cancelled"},
          s2 \in {"out_for_delivery", "delivered", "cancelled"},
          p1 \in Periods, p2 \in Periods :
          order = [i \in AllOrderIds |->
                     IF i = "ord1"
                     THEN storedOrder("c1", r1, s1, p1, <<soldLine(1, 2)>>)
                     ELSE storedOrder("c2", r2, s2, p2, <<soldLine(2, 1), soldLine(1, 1)>>)]
    /\ InitStore

NextRevenue ==
    \/ \E a \in {Keeper, Shopper, Dispatcher, NoUser}, r \in RestaurantRefs :
          getRestaurantStats(a, r)
    \/ \E i \in AllOrderIds : manageOrderStatus(Keeper, i, "delivered")

SpecRevenue == InitRevenue /\ [][NextRevenue]_vars

\* Popular items: ord1 sells the items 1..3, once or twice each; ord2 sells
\* the items 3..MaxSoldItems, item m in quantity m; the owner of r1 asks for
\* the statistics and deletes menu items
InitPopular ==
    /\ \E q1 \in [1..3 -> Quantities], r2 \in RestaurantIds,
          s1 \in {"out_for_delivery", "delivered"}, s2 \in {"out_for_delivery", "delivered"} :
          order = [i \in AllOrderIds |->
                     IF i = "ord1"
                     THEN storedOrder("c1", "r1", s1, "thisMonth",
                                      [k \in 1..3 |-> soldLine(k, q1[k])])
                     ELSE storedOrder("c2", r2, s2, "thisMonth",
                                      [k \in 1..(MaxSoldItems - 2) |->
                                          soldLine(k + 2, k + 2)])]
    /\ InitStore

NextPopular ==
    \/ getRestaurantStats(Keeper, "r1")
    \/ \E i \in AllOrderIds : manageOrderStatus(Keeper, i, "delivered")
    \/ \E m \in MenuItemIds : deleteMenuItem(Keeper, m)

SpecPopular == InitPopular /\ [][NextPopular]_vars

\* Reading orders: every requester asks for the orders, the one of c1 and
\* the one c2 places, before and after a driver is assigned
NextView ==
    \/ \E a \in Requesters, i \in AllOrderIds \cup {"nonexistent"} : getOrder(a, i)
    \/ \E i \in AllOrderIds, d \in DriverIds : assignDriver(Dispatcher, i, d)
    \/ \E c \in CartsOfLen(1) : createOrder(Shopper, "r1", c)

SpecView == Init /\ [][NextView]_vars

\* Placing orders: customers send carts while the owner opens and closes the
\* restaurant and changes its menu

NextPlace ==
    \/ \E a \in {Shopper, NoUser}, c \in Carts : createOrder(a, "r1", c)
    \/ \E b \in BOOLEAN : updateRestaurant(Keeper, "r1", b)
    \/ \E m \in MenuItemIds : updateMenuItem(Keeper, m, "false", << >>)
    \/ \E m \in MenuItemIds : deleteMenuItem(Keeper, m)

SpecPlace == Init /\ [][NextPlace]_vars

\* The shop: after an order is placed, the owner runs the restaurant, its menu
\* and its orders, and the customer may cancel
Prices == {1000}

NextShop ==
    \/ \E c \in CartsOfLen(1) : createOrder(Shopper, "r1", c)
    \/ \E b \in BOOLEAN : updateRestaurant(Keeper, "r1", b)
    \/ \E a \in {Keeper, Shopper} : deleteRestaurant(a, "r1")
    \/ \E m \in MenuItemIds, v \in {"unset", "false"}, p \in {<<x>> : x \in Prices} :
          updateMenuItem(Keeper, m, v, p)
    \/ \E m \in MenuItemIds : deleteMenuItem(Keeper, m)
    \/ \E i \in PlacedOrderIds : acceptOrder(Keeper, i)
    \/ \E i \in PlacedOrderIds, t \in OrderStatuses : manageOrderStatus(Keeper, i, t)
    \/ \E i \in PlacedOrderIds : cancelOrder(Shopper, i)

SpecShop == Init /\ [][NextShop]_vars

\* Owners found restaurants, under two names, and the owner of r1 closes it
\* down; the requests interleave
NextFound ==
    \/ \E a \in Founders, n \in {"New Restaurant", "Second Restaurant"} :
          BeginCreateRestaurant(a, n)
    \/ \E a \in Founders, n \in {"New Restaurant", "Second Restaurant"} :
          FinishCreateRestaurant([op |-> "createRestaurant", actor |-> a, name |-> n])
    \/ deleteRestaurant(Keeper, "r1")

SpecFound == Init /\ [][NextFound]_vars

\* The fleet: both orders are confirmed and assigned to driver d1, as
\* assignDriver leaves them: delivery del1 for ord1 and del2 for ord2.  The
\* driver accepts and carries the deliveries while the customers may cancel
InitFleet ==
    /\ order = [i \in AllOrderIds |->
                  storedOrder(IF i = "ord1" THEN "c1" ELSE "c2", "r1", "confirmed",
                              "thisMonth", <<soldLine(1, 2)>>)]
    /\ restaurant = [r \in RestaurantIds |->
                       [exists |-> TRUE, isOpen |-> TRUE, minOrderAmount |-> 2000,
                        deliveryFee |-> 299]]
    /\ delivery = [i \in AllOrderIds |->
                     [exists |-> TRUE, driverId |-> "d1", status |-> "assigned", rows |-> 1]]
    /\ menuItem = [m \in MenuItemIds |-> NoMenuItem]
    /\ inflight = EmptyBag
    /\ last = NoResponse
    /\ accepted = [i \in AllOrderIds |-> 0]
    /\ rejected = [i \in AllOrderIds |-> FALSE]
    /\ deliveries = [d \in DeliveryIds |->
                       [orderId |-> IF d = "del1" THEN "ord1" ELSE "ord2",
                        driverId |-> "d1",
                        status |-> "assigned", pickupTime |-> FALSE, deliveryTime |-> FALSE,
                        driverFee |-> IF d = "del1" THEN <<MaxFee>> ELSE << >>]]
    /\ drivers = [u \in UserIds |->
                    [driverStatus |-> "online", totalDeliveries |-> 0, totalEarnings |-> 0]]
    /\ credited = [u \in UserIds |-> [n |-> 0, sum |-> 0]]
    /\ stats = NoStats
    /\ created = {}
    /\ store = [status |-> "offline", currentDelivery |-> "null",
               availableDeliveries |-> {}, isLoading |-> FALSE]

NextFleet ==
    \/ \E a \in {u \in DriverUsers : u.role = "driver"}, d \in DeliveryIds :
          acceptDelivery(a, d, FALSE)
    \/ \E a \in {u \in DriverUsers : u.role = "driver"}, d \in DeliveryIds,
           t \in {"in_transit", "delivered"} : updateDeliveryStatus(a, d, t, FALSE)
    \/ \E a \in {u \in Actors : u.role = "customer"}, i \in AllOrderIds : cancelOrder(a, i)

SpecFleet == InitFleet /\ [][NextFleet]_vars

\* The driver page: store actions start and settle in any order; a call
\* resolves with or without data, or rejects
NextStore ==
    \/ \E c \in StoreCalls : StoreBegin(c)
    \/ \E c \in StoreCalls : \E ok \in BOOLEAN,
           data \in IF c.op \in {"acceptDelivery", "updateDeliveryStatus"}
                    THEN {"null", c.id}
                    ELSE IF c.op = "loadAvailableDeliveries"
                            \/ (c.op = "initializeDriver" /\ c.pc = 1)
                    THEN SUBSET DeliveryIds
                    ELSE {"null"} :
          StoreSettle(c, ok, data)

SpecStore == Init /\ [][NextStore]_vars

\* Interleaved order requests
NextConc ==
    \/ \E req \in ConcRequests : Begin(req)
    \/ \E r \in SuspendedRequests : Commit(r)

SpecConc == Init /\ [][NextConc]_vars

\* Interleaved assignments, among the interleaved order requests
NextAssignConc ==
    \/ \E i \in OrderIds, d \in DriverIds : BeginAssign(i, d)
    \/ \E r \in SuspendedAssigns : FinishAssign(r)
    \/ \E req \in ConcRequests : Begin(req)
    \/ \E r \in SuspendedRequests : Commit(r)

SpecAssignConc == Init /\ [][NextAssignConc]_vars

\* The driver endpoints, one request at a time; the store may fail a second write
NextDriver ==
    \/ \E a \in DriverRequesters, d \in SeqDeliveryRefs, f \in BOOLEAN : acceptDelivery(a, d, f)
    \/ \E a \in DriverRequesters, d \in SeqDeliveryRefs, t \in RequestedDeliveryStatuses,
           f \in BOOLEAN : updateDeliveryStatus(a, d, t, f)
    \/ \E a \in DriverRequesters, t \in DriverStatuses : updateDriverStatus(a, t)

SpecDriver == Init /\ [][NextDriver]_vars

\* Interleaved completions, with availability changes in between
NextDriverConc ==
    \/ \E a \in DriverUsers, d \in DeliveryIds : BeginCompletion(a, d)
    \/ \E r \in SuspendedCompletions : FinishCompletion(r)
    \/ \E a \in DriverUsers, t \in DriverStatuses : updateDriverStatus(a, t)

SpecDriverConc == Init /\ [][NextDriverConc]_vars

----------------------------------------------------------------------------
(* Properties *)

\* The lifecycle chain of Order.status, one step forward
ForwardEdges ==
    {<<"pending", "confirmed">>, <<"confirmed", "preparing">>,
     <<"preparing", "ready_for_pickup">>, <<"ready_for_pickup", "out_for_delivery">>,
     <<"out_for_delivery", "delivered">>}

StatusChanged(i) == order'[i].status # order[i].status

\* C1: every change of an order's status, by any of the order operations
\* (assignDriver included), is one step forward along the lifecycle chain or a
\* move to cancelled from a non-terminal status.
C1_StatusFollowsLifecycle ==
    [][\A i \in OrderIds :
         StatusChanged(i) =>
            \/ <<order[i].status, order'[i].status>> \in ForwardEdges
            \/ /\ order'[i].status = "cancelled"
               /\ order[i].status \notin {"delivered", "cancelled"}]_vars

\* C2: once an order is delivered or cancelled no request changes its status
\* again, and a status update asked of it by an actor allowed to update the
\* order is answered with InvalidTransition, whatever status it asks for.
C2_TerminalStatusIsFinal ==
    [][\A i \in OrderIds :
         order[i].status \in {"delivered", "cancelled"} =>
            /\ ~StatusChanged(i)
            /\ ( /\ last'.id = i
                 /\ last'.op \in {"updateOrderStatus", "manageOrderStatus"}
                 /\ last'.code \notin {"NotAuthenticated", "Forbidden"} )
               => last'.code = "InvalidTransition"]_vars

\* C3: of the acceptOrder requests that run concurrently on one pending order
\* at most one is answered with success.
C3_OneAcceptSucceeds == \A i \in OrderIds : accepted[i] <= 1

AuthFailures == {"NotAuthenticated", "NotFound", "Forbidden"}

\* C4: an acceptOrder or rejectOrder request that passes authentication, lookup
\* and authorization succeeds exactly when the order is pending; a successful
\* accept leaves it confirmed, a successful reject leaves it cancelled, and no
\* acceptOrder succeeds on an order after a rejectOrder has succeeded on it.
C4_AcceptRejectOnlyFromPending ==
    /\ (last.op \in {"acceptOrder", "rejectOrder"} /\ last.code \notin AuthFailures)
          => (last.code = "OK" <=> last.read = "pending")
    /\ (last.op = "acceptOrder" /\ last.code = "OK")
          => (order[last.id].status = "confirmed" /\ ~rejected[last.id])
    /\ (last.op = "rejectOrder" /\ last.code = "OK")
          => order[last.id].status = "cancelled"

\* C4 witness: an acceptOrder request of the owner, after a successful
\* rejectOrder on the same order, has been refused.
C4_Witness ==
    /\ last.op = "acceptOrder"
    /\ last.code = "OnlyPendingCanBeAccepted"
    /\ last.read = "cancelled"
    /\ rejected[last.id]

\* C5: a cancelOrder request that succeeds never overwrites a stored status of
\* out_for_delivery or delivered, also when status updates run between its
\* read and its write.
C5_CancelNeverHitsInFlightOrder ==
    (last.op = "cancelOrder" /\ last.code = "OK")
        => last.stored \notin {"out_for_delivery", "delivered"}

TargetRestaurant(resp) ==
    IF resp.id \in OrderIds THEN order[resp.id].restaurantId ELSE resp.id

OwnerDashboardOps ==
    {"createMenuItem", "updateMenuItem", "deleteMenuItem",
     "updateOrderStatus", "manageOrderStatus", "acceptOrder", "rejectOrder"}

\* C7: a request of a restaurant_owner on the menu items or orders of a
\* restaurant whose ownerId is another user (createMenuItem, updateMenuItem,
\* deleteMenuItem, updateOrderStatus, acceptOrder, rejectOrder) is answered
\* with Forbidden and writes nothing.
C7_NonOwnerIsForbidden ==
    [][( /\ last'.op \in OwnerDashboardOps
         /\ last'.actor.role = "restaurant_owner"
         /\ TargetRestaurant(last') \in RestaurantIds
         /\ ownerId[TargetRestaurant(last')] # last'.actor.id )
       => ( /\ last'.code = "Forbidden"
            /\ UNCHANGED <<order, delivery, menuItem>> )]_vars

\* C7 witness: the owner of another restaurant was refused on an order that
\* has been accepted, with a menu item created beside the first one.
C7_Witness ==
    /\ last.op = "manageOrderStatus"
    /\ last.actor = [id |-> "o2", role |-> "restaurant_owner"]
    /\ last.id = "ord1"
    /\ last.code = "Forbidden"
    /\ order["ord1"].status = "confirmed"
    /\ \E m \in MenuItemIds : menuItem[m].exists /\ menuItem[m].restaurantId = "r2"

\* C8: a status update asked by a driver succeeds only if that driver is the
\* driver of the order's delivery and the change is ready_for_pickup ->
\* out_for_delivery or out_for_delivery -> delivered.
C8_DriverUpdatesOnlyOwnDelivery ==
    ( /\ last.op \in {"updateOrderStatus", "manageOrderStatus"}
      /\ last.actor.role = "driver"
      /\ last.code = "OK" )
    => /\ last.op = "updateOrderStatus"
       /\ delivery[last.id].exists
       /\ delivery[last.id].driverId = last.actor.id
       /\ \/ (last.read = "ready_for_pickup" /\ last.to = "out_for_delivery")
          \/ (last.read = "out_for_delivery" /\ last.to = "delivered")

\* C8 witness: the assigned driver has moved the order to out_for_delivery.
C8_Witness ==
    /\ last.op = "updateOrderStatus"
    /\ last.actor.role = "driver"
    /\ last.code = "OK"
    /\ last.to = "out_for_delivery"
    /\ order[last.id].status = "out_for_delivery"

\* C9: a request of a customer changes an order's status only when it is a
\* cancelOrder of the customer's own order; a customer's updateOrderStatus,
\* acceptOrder or rejectOrder, and a cancelOrder of someone else's order, are
\* answered with Forbidden.
C9_CustomerOnlyCancelsOwnOrder ==
    [][\A i \in OrderIds :
         last'.actor.role = "customer" =>
            /\ StatusChanged(i) =>
                  (last'.op = "cancelOrder" /\ order[i].customerId = last'.actor.id)
            /\ ( /\ last'.id = i
                 /\ \/ last'.op \in {"updateOrderStatus", "manageOrderStatus",
                                     "acceptOrder", "rejectOrder"}
                    \/ (last'.op = "cancelOrder" /\ order[i].customerId # last'.actor.id) )
               => last'.code = "Forbidden"]_vars

\* C10: a menu request of a non-admin actor succeeds only if the actor's id is
\* the restaurant's ownerId and the actor's role is restaurant_owner.
C10_OwnerNeedsIdAndRole ==
    ( /\ last.op \in {"createMenuItem", "updateMenuItem", "deleteMenuItem"}
      /\ last.code = "OK"
      /\ last.actor.role # "admin" )
    => ( /\ ownerId[last.id] = last.actor.id
         /\ last.actor.role = "restaurant_owner" )

\* C11: a request that carries no authenticated actor is answered with
\* NotAuthenticated, by every order operation (assignDriver included), before
\* the handler has read anything and without any write to the store.
C11_UnauthenticatedIsRefusedFirst ==
    [][last'.actor = NoUser =>
          /\ last'.code = "NotAuthenticated"
          /\ last'.read = "none"
          /\ UNCHANGED <<order, delivery, menuItem>>]_vars

\* C12: an authenticated request that names an order which does not exist is
\* answered with NotFound, never with Forbidden or any other answer, whatever
\* the actor's role and whatever the operation.
C12_MissingResourceIsNotFound ==
    (last.op # "none" /\ last.actor # NoUser /\ last.id = "nonexistent")
        => last.code = "NotFound"

\* The edges of Delivery.status
DeliveryEdges ==
    {<<"assigned", "picked_up">>, <<"picked_up", "in_transit">>,
     <<"in_transit", "delivered">>,
     <<"assigned", "cancelled">>, <<"picked_up", "cancelled">>}

\* C13: every change of a delivery's status made by acceptDelivery or
\* updateDeliveryStatus is one step along assigned -> picked_up -> in_transit
\* -> delivered, or a move to cancelled from assigned or picked_up.
C13_DeliveryStatusFollowsLifecycle ==
    [][\A d \in DeliveryIds :
         deliveries'[d].status # deliveries[d].status =>
            <<deliveries[d].status, deliveries'[d].status>> \in DeliveryEdges]_vars

\* C14: an acceptDelivery or updateDeliveryStatus request of a user whose id is
\* not the delivery's driverId is refused with a typed error and changes
\* neither a delivery nor a user record.
C14_OnlyAssignedDriverChangesDelivery ==
    [][( /\ last'.op \in {"acceptDelivery", "updateDeliveryStatus"}
         /\ last'.actor # NoUser
         /\ last'.id \in DeliveryIds
         /\ deliveries[last'.id].driverId # last'.actor.id )
       => ( /\ last'.code \notin {"OK", "InternalError"}
            /\ UNCHANGED <<deliveries, drivers>> )]_vars

\* C15: a completion (updateDeliveryStatus to delivered) writes the delivery's
\* status and deliveryTime and the user's counters and availability together
\* or not at all: a request answered with an error has written nothing.
C15_CompletionIsAllOrNothing ==
    [][( /\ last'.op = "updateDeliveryStatus"
         /\ last'.to = "delivered"
         /\ last'.code # "OK" )
       => UNCHANGED <<deliveries, drivers>>]_vars

C17_NoLostIncrement ==
    \A u \in UserIds :
        /\ drivers[u].totalDeliveries = credited[u].n
        /\ drivers[u].totalEarnings = credited[u].sum

\* C17 witness: one completion of d1 has been credited while another completion
\* of d1, begun before that credit, is still suspended.
C17_Witness ==
    /\ credited["d1"].n = 1
    /\ \E r \in BagToSet(inflight) : r.actor.id = "d1" /\ r.seen.totalDeliveries = 0

\* C18: a successful acceptDelivery on an assigned delivery leaves it picked_up
\* with its pickupTime set and the accepting user's availability busy.
C18_AcceptDeliveryPicksUp ==
    [][( /\ last'.op = "acceptDelivery"
         /\ last'.code = "OK"
         /\ deliveries[last'.id].status = "assigned" )
       => ( /\ deliveries'[last'.id].status = "picked_up"
            /\ deliveries'[last'.id].pickupTime
            /\ drivers'[last'.actor.id].driverStatus = "busy" )]_vars

\* C18 witness: driver d1 has accepted the assigned delivery del1.
C18_Witness ==
    /\ last.op = "acceptDelivery"
    /\ last.actor.id = "d1"
    /\ last.code = "OK"
    /\ last.stored = "assigned"
    /\ deliveries["del1"].status = "picked_up"
    /\ drivers["d1"].driverStatus = "busy"

\* C19: assignDriver succeeds only on an order whose status is confirmed or
\* ready_for_pickup; on an order in any other status it fails and creates no
\* Delivery.
C19_AssignDriverNeedsConfirmedOrReady ==
    [][( /\ last'.op = "assignDriver"
         /\ last'.id \in OrderIds
         /\ order[last'.id].status \notin {"confirmed", "ready_for_pickup"} )
       => ( /\ last'.code # "OK"
            /\ delivery' = delivery )]_vars

\* C20: assignDriver never changes the order's status: after a successful
\* assignDriver the status is the one stored before the call.
C20_AssignDriverKeepsStatus ==
    (last.op = "assignDriver" /\ last.code = "OK")
        => order[last.id].status = last.stored

\* C21: whatever assignDriver requests have run, one after another or
\* interleaved, for the same or for different drivers, an order has at most
\* one Delivery row.
C21_OneDeliveryPerOrder ==
    \A i \in OrderIds : delivery[i].rows <= 1

\* C21 witness: a second assignDriver for ord1, begun while the first was
\* suspended, for another driver, has been refused by the store.
C21_Witness ==
    /\ last.op = "assignDriver"
    /\ last.code = "InternalError"
    /\ delivery["ord1"].rows = 1
    /\ delivery["ord1"].driverId = "d1"

C23_AcceptAndRejectFailAlike ==
    \A a \in Requesters, i \in OrderIds :
        order[i].status # "pending" => acceptOrderCheck(a, i) = rejectOrderCheck(a, i)

\* The value of a cart at the prices of the menu
RECURSIVE CartValue(_)
CartValue(cart) ==
    IF cart = << >> THEN 0
    ELSE menuItem[cart[1].menuItemId].price * cart[1].quantity + CartValue(Tail(cart))

\* The restaurant is open, every item of the cart exists and is available,
\* and the cart reaches the minimum order amount
CartOrderable(r, cart) ==
    /\ restaurant[r].exists
    /\ restaurant[r].isOpen
    /\ \A k \in 1..Len(cart) :
          /\ menuItem[cart[k].menuItemId].exists
          /\ menuItem[cart[k].menuItemId].isAvailable
    /\ CartValue(cart) >= restaurant[r].minOrderAmount

\* C24: createOrder creates an order only if the restaurant is open, every
\* item of the cart exists and is available, and the subtotal reaches the
\* restaurant's minOrderAmount; otherwise it answers an error and no order
\* is created.
C24_CreateOrderValidatesCart ==
    [][ last'.op = "createOrder" =>
          /\ last'.code = "OK" =>
                /\ CartOrderable(last'.id, last'.cart)
                /\ ~order[last'.to].exists
                /\ order'[last'.to].exists
          /\ ~CartOrderable(last'.id, last'.cart) => last'.code # "OK"
          /\ last'.code # "OK" => order' = order ]_vars

\* C24 witness: a cart of two lines has been accepted and ord2 created.
C24_Witness ==
    /\ last.op = "createOrder"
    /\ last.code = "OK"
    /\ Len(last.cart) = 2
    /\ order["ord2"].exists
    /\ order["ord2"].customerId = "c2"

\* The monetary columns of an order
Amounts(row) == <<row.subtotal, row.deliveryFee, row.tax, row.discount, row.total>>

C26_OrdersAreNeverRemoved ==
    [][\A i \in AllOrderIds : order[i].exists => order'[i].exists]_vars

\* C27: once an order is created its order items neither change nor
\* disappear, whatever is done afterwards, updateMenuItem and deleteMenuItem
\* included.
C27_OrderItemsAreFrozen ==
    [][\A i \in AllOrderIds :
          order[i].exists => /\ order'[i].exists
                             /\ order'[i].items = order[i].items]_vars

\* The users the order concerns: its customer, the owner of its restaurant,
\* the driver of its delivery; and the admins
Concerned(actor, i) ==
    \/ actor.id = order[i].customerId
    \/ actor.id = ownerId[order[i].restaurantId]
    \/ delivery[i].exists /\ actor.id = delivery[i].driverId
    \/ actor.role = "admin"

\* C28: getOrder returns an order only to its customer, the owner of its
\* restaurant, its assigned driver or an admin; every other authenticated
\* user is answered Forbidden, and a refusal carries no order data.
C28_GetOrderOnlyForThoseConcerned ==
    last.op = "getOrder" =>
        /\ last.code = "OK" => Concerned(last.actor, last.id)
        /\ last.code # "OK" => last.read = "none"
        /\ ( /\ last.actor # NoUser
             /\ last.id \in AllOrderIds
             /\ order[last.id].exists
             /\ ~Concerned(last.actor, last.id) ) => last.code = "Forbidden"

\* C28 witness: driver d2 asks for ord1, whose delivery is assigned to d1, and
\* is answered Forbidden without data.
C28_Witness ==
    /\ last.op = "getOrder"
    /\ last.actor.id = "d2"
    /\ delivery["ord1"].exists
    /\ delivery["ord1"].driverId = "d1"
    /\ last.code = "Forbidden"
    /\ last.read = "none"

\* The sum of the totals of the delivered orders of restaurant r created in
\* one of the periods, 0 when there is none
RECURSIVE TotalOver(_, _, _)
TotalOver(ids, r, periods) ==
    IF ids = {} THEN 0
    ELSE LET i == CHOOSE x \in ids : TRUE
         IN  (IF /\ order[i].exists
                 /\ order[i].restaurantId = r
                 /\ order[i].status = "delivered"
                 /\ order[i].createdAt \in periods
              THEN order[i].total ELSE 0) + TotalOver(ids \ {i}, r, periods)

\* C29: revenue.monthly and revenue.yearly of getRestaurantStats are the sums
\* of Order.total over the restaurant's delivered orders created in the
\* month and in the year; with no such order the revenue is 0, not null.
C29_RevenueIsSumOfDeliveredTotals ==
    (last.op = "getRestaurantStats" /\ last.code = "OK") =>
        /\ stats.monthly \in Nat
        /\ stats.yearly \in Nat
        /\ stats.monthly = TotalOver(AllOrderIds, stats.restaurantId, {"thisMonth"})
        /\ stats.yearly =
             TotalOver(AllOrderIds, stats.restaurantId, {"thisMonth", "thisYear"})

\* C29 witness: r1 has a delivered order from earlier this year and another
\* order this month that is not delivered: monthly revenue 0, yearly not.
C29_Witness ==
    /\ last.op = "getRestaurantStats"
    /\ last.code = "OK"
    /\ stats.restaurantId = "r1"
    /\ stats.monthly = 0
    /\ stats.yearly > 0
    /\ \E i \in AllOrderIds :
          /\ order[i].restaurantId = "r1"
          /\ order[i].createdAt = "thisMonth"
          /\ order[i].status # "delivered"

\* What the order items of menu item m add up to in a list of order items
RECURSIVE ItemSum(_, _, _)
ItemSum(items, m, field) ==
    IF items = << >> THEN 0
    ELSE (IF items[1].menuItemId = m THEN items[1][field] ELSE 0)
           + ItemSum(Tail(items), m, field)

\* ... and over the delivered orders of restaurant r
RECURSIVE SoldSum(_, _, _, _)
SoldSum(ids, r, m, field) ==
    IF ids = {} THEN 0
    ELSE LET i == CHOOSE x \in ids : TRUE
         IN  (IF /\ order[i].exists
                 /\ order[i].restaurantId = r
                 /\ order[i].status = "delivered"
              THEN ItemSum(order[i].items, m, field) ELSE 0)
               + SoldSum(ids \ {i}, r, m, field)

\* a comes before b: more sold; when equal, more revenue; when equal, lower id
RankedBefore(a, b) ==
    \/ a.totalSold > b.totalSold
    \/ a.totalSold = b.totalSold /\ a.totalRevenue > b.totalRevenue
    \/ a.totalSold = b.totalSold /\ a.totalRevenue = b.totalRevenue /\ a.id < b.id

\* C30: popularItems lists at most 5 distinct menu items of the restaurant's
\* delivered orders, by summed quantity descending, equal quantities by
\* summed subtotal descending and then by menuItemId ascending.
C30_PopularItemsAreRanked ==
    (last.op = "getRestaurantStats" /\ last.code = "OK") =>
        /\ Len(stats.popularItems) <= 5
        /\ \A j \in 1..Len(stats.popularItems) :
              /\ stats.popularItems[j].totalSold > 0
              /\ stats.popularItems[j].totalSold =
                   SoldSum(AllOrderIds, stats.restaurantId,
                           stats.popularItems[j].id, "quantity")
              /\ stats.popularItems[j].totalRevenue =
                   SoldSum(AllOrderIds, stats.restaurantId,
                           stats.popularItems[j].id, "subtotal")
        /\ \A j, k \in 1..Len(stats.popularItems) :
              j < k => RankedBefore(stats.popularItems[j], stats.popularItems[k])

\* C31: a popular item whose MenuItem row was deleted keeps its entry in
\* the answer of getRestaurantStats, named 'Unknown' with price 0, and its
\* totalSold and totalRevenue are the sums over the delivered orders all the
\* same.  An item is surely among the popular ones when at most five sold
\* items sold as much as it did.
C31_DeletedItemKeepsItsFigures ==
    (last.op = "getRestaurantStats" /\ last.code = "OK") =>
        \A m \in SoldItemIds :
            LET sold(x) == SoldSum(AllOrderIds, stats.restaurantId, x, "quantity")
            IN  /\ sold(m) > 0
                /\ ~(m \in MenuItemIds /\ menuItem[m].exists)
                /\ Cardinality({x \in SoldItemIds : sold(x) >= sold(m)}) <= 5
                => \E k \in 1..Len(stats.popularItems) :
                      /\ stats.popularItems[k].id = m
                      /\ stats.popularItems[k].name = "Unknown"
                      /\ stats.popularItems[k].price = 0
                      /\ stats.popularItems[k].totalSold = sold(m)
                      /\ stats.popularItems[k].totalRevenue =
                           SoldSum(AllOrderIds, stats.restaurantId, m, "subtotal")

\* C31 witness: the burger, item 1, was sold and delivered, then deleted by
\* the owner; the statistics list it as Unknown with what it sold.
C31_Witness ==
    /\ last.op = "getRestaurantStats"
    /\ last.code = "OK"
    /\ ~menuItem[1].exists
    /\ \E k \in 1..Len(stats.popularItems) :
          /\ stats.popularItems[k].id = 1
          /\ stats.popularItems[k].name = "Unknown"
          /\ stats.popularItems[k].totalRevenue >= BurgerPrice

\* C32: getRestaurantStats writes nothing to the store, and a second call for
\* the same restaurant, with no write in between, answers what the first
\* call answered.
C32_StatsAreReadOnlyAndRepeatable ==
    [][ (last'.op = "getRestaurantStats" =>
            UNCHANGED <<order, restaurant, delivery, menuItem, deliveries, drivers>>)
        /\ (/\ last.op = "getRestaurantStats" /\ last.code = "OK"
            /\ last'.op = "getRestaurantStats" /\ last'.code = "OK"
            /\ stats'.restaurantId = stats.restaurantId
            => stats' = stats) ]_vars

\* C33: a driver operation requested by an authenticated user whose role is
\* not driver is refused with 403 'Driver access required' and changes
\* neither a Delivery row nor a User row.
C33_DriverOperationsNeedDriverRole ==
    [][ (/\ last'.op \in {"acceptDelivery", "updateDeliveryStatus", "updateDriverStatus"}
         /\ last'.actor # NoUser
         /\ last'.actor.role # "driver")
        => (last'.code = "Forbidden" /\ UNCHANGED <<deliveries, drivers, credited>>) ]_vars

\* C34: no user with the role restaurant_owner owns more than one
\* restaurant, and createRestaurant by an owner who has one is answered
\* 'You already have a restaurant'.
C34_OneRestaurantPerOwner ==
    \A a \in Founders :
        a.role = "restaurant_owner" =>
            Cardinality({r \in RestaurantIds : restaurant[r].exists /\ ownerId[r] = a.id})
              + Cardinality({row \in created : row.ownerId = a.id}) <= 1

\* The sum of driverFee over the delivered deliveries among ids that are
\* assigned to user u
RECURSIVE DeliveredFees(_, _)
DeliveredFees(ids, u) ==
    IF ids = {} THEN 0
    ELSE LET d == CHOOSE x \in ids : TRUE
         IN  (IF deliveries[d].driverId = u /\ deliveries[d].status = "delivered"
              THEN (IF deliveries[d].driverFee = << >> THEN 0 ELSE deliveries[d].driverFee[1])
              ELSE 0) + DeliveredFees(ids \ {d}, u)

\* C35: for every user of the driver endpoints, totalDeliveries is the number
\* of delivered deliveries assigned to that user and totalEarnings the sum of
\* their driverFee, also after repeated delivered requests and requests of
\* other users.
C35_CountersMatchDeliveredDeliveries ==
    \A u \in UserIds :
        /\ drivers[u].totalDeliveries =
             Cardinality({d \in DeliveryIds :
                 deliveries[d].driverId = u /\ deliveries[d].status = "delivered"})
        /\ drivers[u].totalEarnings = DeliveredFees(DeliveryIds, u)

\* C37: the stored availability of a user of the driver endpoints is busy
\* exactly while a delivery assigned to that user is picked_up or in_transit.
C37_BusyExactlyWhileDelivering ==
    \A u \in UserIds :
        drivers[u].driverStatus = "busy" <=>
            \E d \in DeliveryIds :
                /\ deliveries[d].driverId = u
                /\ deliveries[d].status \in {"picked_up", "in_transit"}

\* C36: no driver has two deliveries in picked_up or in_transit at a time.
C36_OneActiveDeliveryPerDriver ==
    \A u \in DriverIds :
        Cardinality({d \in DeliveryIds :
            /\ deliveries[d].driverId = u
            /\ deliveries[d].status \in {"picked_up", "in_transit"}}) <= 1

\* C38: the order of a delivered Delivery is delivered; no driver is
\* credited for a delivery whose order is cancelled.
C38_DeliveredDeliveryMeansDeliveredOrder ==
    \A d \in DeliveryIds :
        deliveries[d].status = "delivered" =>
            order[deliveries[d].orderId].status = "delivered"

\* C39: when no store action is in flight, the status of the driver store
\* is busy if and only if currentDelivery is not null.
C39_StoreBusyIffCurrentDelivery ==
    inflight = EmptyBag =>
        (store.status = "busy" <=> store.currentDelivery # "null")

\* C40: isLoading is true while a store action is in flight.
C40_LoadingWhileActionsInFlight ==
    inflight # EmptyBag => store.isLoading

====
